---- MODULE Spec2Model ----
(***************************************************************************)
(* fms_parse: non-owning views of contiguous characters (fms::view,         *)
(* fms::char_view) and the delimiter scan built on them (fms::parse::split).*)
(*                                                                         *)
(* A character is its ASCII code.  A character array is a sequence that    *)
(* ends with its NUL terminator, as `char buf[] = "abc"` does; a pointer   *)
(* into it is a 0-based offset, so buf[i] is mem[buf + i + 1].  A view is  *)
(* the record [buf, len] of fms::view<T>.                                  *)
(***************************************************************************)
EXTENDS Integers, Sequences, FiniteSets

VARIABLES
    mem,    \* the caller's character array, NUL terminator included
    v,      \* the caller's char_view over mem
    call,   \* the last member/function call: its name, arguments, the value
            \* v had when it was made, and what it returned
    ss,     \* a splitable over v (the records of a two level iteration)
    fs,     \* a splitable over the record *ss (its fields)
    out,    \* the views a loop over a splitable has been handed by operator*
    pc,     \* the position of that loop
    incs,   \* the number of operator++ calls the loop has made
    res     \* what the last call of a JSON parsing function returned

\* the state of a loop over a splitable
iter == <<ss, fs, out, pc, incs>>

vars == <<mem, v, call, iter, res>>

\* ---------------------------------------------------------------- bounds
\* Longest text (terminator not counted) in the caller's array.
MaxLen == 3
\* Longest literal handed to eat / equal.
MaxLit == 2
\* Longest text handed to ws_trim / trim_ws.
MaxTrimLen == 3
\* Longest text handed to split.
MaxSplitLen == 5
\* Longest text handed to the literal matchers of the JSON parser.
MaxLiteralLen == 5
\* Longest text handed to parse_number.
MaxNumberLen == 4
\* Longest text handed to parse_string.
MaxStringLen == 5
\* Longest text to_ymd is run on.
MaxYmdLen == 5
\* Longest text parse_value is run on.
MaxJsonLen == 5
\* Most members of an object text parse_value is run on.
MaxMembers == 3
\* Longest text a loop over a splitable is run on.
MaxIterLen == 4
\* The operator++ calls a loop is followed for: more than the claimed bound
\* of length + 1.
MaxIncr == MaxIterLen + 2

\* ------------------------------------------------------------ characters
\* ' ', 'a', 'b'
Alphabet == {32, 97, 98}
\* the six white space characters and 'a'
TrimAlphabet == {9, 10, 11, 12, 13, 32, 97}
\* characters of the literals given to eat / equal
LitAlphabet == {97, 98}
\* ',', '\\', 'a', '{', '}'
SplitAlphabet == {44, 92, 97, 123, 125}
\* blank, 'l', 'n', 'u', 'x'
LiteralAlphabet == {32, 108, 110, 117, 120}
\* blank, '+', '-', '.', '0', '1', 'e', 'x'
NumberAlphabet == {32, 43, 45, 46, 48, 49, 101, 120}
\* '"', backslash, 'a'
StringAlphabet == {34, 92, 97}
\* '-', '/', '1', '2', ':'
YmdAlphabet == {45, 47, 49, 50, 58}
\* '"', ',', '1', '[', ']'
JsonAlphabet == {34, 44, 49, 91, 93}
\* blank, ',', ';', 'a', 'b'
IterAlphabet == {32, 44, 59, 97, 98}

RECURSIVE Strings(_, _)
\* all sequences over A of length at most n
Strings(A, n) ==
    IF n = 0 THEN {<<>>}
    ELSE LET S == Strings(A, n - 1)
         IN  S \cup {Append(s, c) : s \in {t \in S : Len(t) = n - 1}, c \in A}

\* a character array initialised from a string literal
CString(s) == Append(s, 0)

Min(a, b) == IF a < b THEN a ELSE b

\* ------------------------------------------------------------ fms_view.h
View(b, l) == [buf |-> b, len |-> l]

\* *p for a pointer p into the caller's array
at(p) == mem[p + 1]

\* the window of the view lies inside the array (terminator excluded); the
\* calls are made on such views only: a view that an undefined clamp has left
\* outside the array is not used again before it is constructed anew
InBuf(w) ==
    LET a == IF w.len < 0 THEN -w.len ELSE w.len
    IN  0 <= w.buf /\ w.buf + a <= Len(mem) - 1

\* explicit operator bool
bool(w) == w.len > 0

\* operator++
\* faulty variant: steps without testing len
incr_unchecked(w) == View(w.buf + 1, w.len - 1)

incr(w) == IF w.len > 0 THEN View(w.buf + 1, w.len - 1) ELSE w

\* non-const front() / back()
front(w) == at(w.buf)
back(w) == at(w.buf + w.len - 1)

\* std::clamp(n, lo, hi).  With hi < lo the call has undefined behaviour:
\* the implementations in use return lo or hi (min(max(n, lo), hi) gives hi;
\* n < lo ? lo : hi < n ? hi : n gives lo or hi), so both are outcomes.
clamp(n, lo, hi) ==
    IF lo <= hi
    THEN {IF n < lo THEN lo ELSE IF hi < n THEN hi ELSE n}
    ELSE {lo, hi}

\* faulty variant: the back branch also moves buf
drop_moves_buf(w, n) ==
    {View(w.buf + (IF m >= 0 THEN m ELSE -m), IF m >= 0 THEN w.len - m ELSE w.len + m)
        : m \in clamp(n, -w.len, w.len)}

\* view::drop: the views the call can leave in *this
drop(w, n) ==
    {IF m >= 0 THEN View(w.buf + m, w.len - m) ELSE View(w.buf, w.len + m)
        : m \in clamp(n, -w.len, w.len)}

\* faulty variant: the back branch forgets to move buf
take_keeps_buf(w, n) ==
    {IF m >= 0 THEN View(w.buf, m) ELSE View(w.buf, -m)
        : m \in clamp(n, -w.len, w.len)}

\* view::take: the views the call can leave in *this
take(w, n) ==
    {IF m >= 0 THEN View(w.buf, m) ELSE View(w.buf + w.len + m, -m)
        : m \in clamp(n, -w.len, w.len)}

\* ------------------------------------------------------- fms_char_view.h
RECURSIVE length_from(_, _)
length_from(s, i) == IF s[i] = 0 THEN 0 ELSE 1 + length_from(s, i + 1)
\* length of the null terminated string s
length(s) == length_from(s, 1)

abs(x) == IF x < 0 THEN -x ELSE x

\* faulty variant: the tab is not white space
is_space_no_tab(c) == c = 32 \/ c = 10 \/ c = 13 \/ c = 12 \/ c = 11

is_space(c) == c = 32 \/ c = 9 \/ c = 10 \/ c = 13 \/ c = 12 \/ c = 11

\* char_view(T* buf, int len = 0) on the caller's array at offset b
char_view(b, l) == View(b, IF l # 0 THEN l ELSE length_from(mem, b + 1))

error(w) == View(w.buf, -abs(w.len))
error_view(w) == View(w.buf, abs(w.len))
is_error(w) == w.len < 0

\* faulty variant: the mismatch branch drops the character anyway
eat_always_drops(w, t) ==
    IF w.len = 0 THEN {error(w)} ELSE {error(x) : x \in drop(w, 1)}

\* char_view::eat(T t): the views the call can leave in *this
eat(w, t) ==
    IF w.len = 0 \/ at(w.buf) # t THEN {error(w)} ELSE drop(w, 1)

RECURSIVE eat_loop(_, _, _, _)
\* while (len and n-- and !is_error()) eat(*s++);  i is the index of *s
eat_loop(w, s, i, n) ==
    IF w.len = 0 \/ n = 0 \/ is_error(w) THEN {w}
    ELSE UNION {eat_loop(x, s, i + 1, n - 1) : x \in eat(w, s[i])}

\* char_view::eat(const T* s, long n = 0)
eat_str(w, s, n) ==
    IF n > w.len THEN {error(w)}
    ELSE eat_loop(w, s, 1, IF n = 0 THEN length(s) ELSE n)

RECURSIVE ws_trim_loop(_, _)
\* while (len and is_space(front())) drop(1);  steps counts the iterations
ws_trim_loop(w, steps) ==
    IF w.len # 0 /\ is_space(front(w))
    THEN UNION {ws_trim_loop(x, steps + 1) : x \in drop(w, 1)}
    ELSE {[view |-> w, steps |-> steps]}

\* char_view::ws_trim
ws_trim(w) == ws_trim_loop(w, 0)

RECURSIVE trim_ws_loop(_, _)
\* while (len and is_space(back())) drop(-1);
trim_ws_loop(w, steps) ==
    IF w.len # 0 /\ is_space(back(w))
    THEN UNION {trim_ws_loop(x, steps + 1) : x \in drop(w, -1)}
    ELSE {[view |-> w, steps |-> steps]}

\* char_view::trim_ws
trim_ws(w) == trim_ws_loop(w, 0)

\* char_view::trim: ws_trim().trim_ws()
trim(w) ==
    UNION {{[view |-> y.view, steps |-> x.steps + y.steps] : y \in trim_ws(x.view)}
            : x \in ws_trim(w)}

RECURSIVE std_equal(_, _, _, _, _)
\* std::equal(first1, last1, first2, last2) on random access ranges: the
\* first range is in the caller's array, the second is the array s
std_equal(first1, last1, s, first2, last2) ==
    IF last1 - first1 # last2 - first2 THEN FALSE
    ELSE IF first1 = last1 THEN TRUE
    ELSE at(first1) = s[first2 + 1]
         /\ std_equal(first1 + 1, last1, s, first2 + 1, last2)

\* view::equal(const view<U>& x), x a view [buf, len] of the array s
view_equal(w, s, x) ==
    w.len = x.len /\ std_equal(w.buf, w.buf + w.len, s, x.buf, x.buf + x.len)

\* faulty variant: compares the first n characters only
equal_prefix(w, s, n) ==
    LET m == IF n # 0 THEN n ELSE length(s)
    IN  w.len >= m /\ std_equal(w.buf, w.buf + m, s, 0, m)

\* char_view::equal(const char* s, long n = 0)
equal(w, s, n) == view_equal(w, s, View(0, IF n # 0 THEN n ELSE length(s)))

\* ----------------------------------------------------- fms_parse_split.h
RECURSIVE split_level(_, _, _, _, _)
\* while (++v_ and *v_ and level) { ... }: the view and the level at exit
split_level(w, level, l, r, e) ==
    LET x == incr(w)
    IN  IF ~bool(x) \/ at(x.buf) = 0 \/ level = 0
        THEN [view |-> x, level |-> level]
        ELSE IF at(x.buf) = r THEN split_level(x, level - 1, l, r, e)
        ELSE IF at(x.buf) = l THEN split_level(x, level + 1, l, r, e)
        ELSE IF at(x.buf) = e THEN split_level(incr(x), level, l, r, e)
        ELSE split_level(x, level, l, r, e)

RECURSIVE split_scan(_, _, _, _, _)
\* while (v_ and *v_ and *v_ != c) { ... ++v_; }: v_ at exit
split_scan(w, c, l, r, e) ==
    IF ~(bool(w) /\ at(w.buf) # 0 /\ at(w.buf) # c) THEN w
    ELSE IF at(w.buf) = l
         THEN LET x == split_level(w, 1, l, r, e)
                  y == IF x.level # 0 THEN View(x.view.buf, -1) ELSE x.view
              IN  split_scan(incr(y), c, l, r, e)
         ELSE split_scan(incr(w), c, l, r, e)

\* split(char_view<T> v, T c, T l, T r, T e): what it returns (ret) and what
\* it leaves in its parameter v, which is a copy of the caller's view
split(w, c, l, r, e) ==
    LET s == split_scan(w, c, l, r, e)
    IN  IF ~is_error(s)
        THEN {[ret |-> f, v |-> x] : f \in take(w, s.buf - w.buf), x \in drop(s, 1)}
        ELSE {[ret |-> s, v |-> w]}

\* std::isspace in the "C" locale
isspace(ch) == ch \in {9, 10, 11, 12, 13, 32}

\* a splitable: the field v it stands on, its cursor v_ and its characters
Splitable(f, cur, c, l, r, e) ==
    [v |-> f, v_ |-> cur, c |-> c, l |-> l, r |-> r, e |-> e]

\* splitable::incr: trim the cursor, split the next field off and trim it.
\* split is handed v_ by value, so v_ keeps the value ws_trim left in it.
splitable_incr(s) ==
    LET cursors == IF ~isspace(s.l) THEN {x.view : x \in ws_trim(s.v_)} ELSE {s.v_}
        trimmed(f) == IF ~isspace(s.r) THEN {x.view : x \in trim_ws(f)} ELSE {f}
    IN  UNION {UNION {{Splitable(f, cur, s.c, s.l, s.r, s.e) : f \in trimmed(x.ret)}
                        : x \in split(cur, s.c, s.l, s.r, s.e)}
                : cur \in cursors}

\* splitable(v, c, l, r, e): v_(v), then incr()
splitable(w, c, l, r, e) == splitable_incr(Splitable(View(0, 0), w, c, l, r, e))

\* splitable::operator bool
splitable_bool(s) == bool(s.v)

\* splitable::operator*
splitable_deref(s) == s.v

\* splitable::operator++: if (v) incr();
splitable_increment(s) == IF bool(s.v) THEN splitable_incr(s) ELSE {s}

\* ------------------------------------------------------ fms_parse_json.h
\* the literals of the JSON grammar, as the character arrays "null", ...
null == <<110, 117, 108, 108, 0>>
true == <<116, 114, 117, 101, 0>>
false == <<102, 97, 108, 115, 101, 0>>

\* eat_chars(char_view<T> v, const char* s, int n): `return v;`
eat_chars(w, s, n) == w

\* parse_null(char_view<T> v): the view it returns; v is its own copy
parse_null(w) == eat_chars(w, null, 4)

\* parse_true(char_view<T>& v): v = eat_chars(v, "true", 4); return !v.is_error();
parse_true(w) ==
    LET x == eat_chars(w, true, 4)
    IN  [v |-> x, ret |-> ~is_error(x)]

\* parse_false(char_view<T>& v)
parse_false(w) ==
    LET x == eat_chars(w, false, 5)
    IN  [v |-> x, ret |-> ~is_error(x)]

RECURSIVE eat_chars_loop(_, _, _, _)
\* while (v_ and n--) { if (*v_++ != *s++) return false; }: the copy v_ at
\* exit and whether the loop ran to its end; i is the index of *s
eat_chars_loop(w, s, i, n) ==
    IF ~(bool(w) /\ n # 0) THEN [v_ |-> w, ok |-> TRUE]
    ELSE IF at(w.buf) # s[i] THEN [v_ |-> incr(w), ok |-> FALSE]
    ELSE eat_chars_loop(incr(w), s, i + 1, n - 1)

\* the earlier eat_chars(char_view<T>& v, const char* s, int n), "eat
\* characters and ensure whitespace terminated": it works on a copy v_ and
\* assigns it to v when it returns true
eat_chars_terminated(w, s, n) ==
    LET x == eat_chars_loop(w, s, 1, n)
    IN  IF ~x.ok THEN [v |-> w, ret |-> FALSE]
        ELSE IF bool(x.v_) /\ ~isspace(at(x.v_.buf)) THEN [v |-> w, ret |-> FALSE]
        ELSE [v |-> x.v_, ret |-> TRUE]

\* is_null / is_true / is_false(char_view<T>& v)
is_null(w) == eat_chars_terminated(w, null, 4)
is_true(w) == eat_chars_terminated(w, true, 4)
is_false(w) == eat_chars_terminated(w, false, 5)

\* ::isdigit and ::toupper in the "C" locale
isdigit(ch) == ch \in 48 .. 57
toupper(ch) == IF ch \in 97 .. 122 THEN ch - 32 ELSE ch

\* the view a call leaves when it has one outcome; the calls of parse_number
\* are made on views that are no error, where clamp is defined
only(S) == CHOOSE x \in S : TRUE

\* A double is kept exact.  The mantissa x = ip + fd / 10^fn is the integer
\* part, the digits of the fraction read as an integer and their number; the
\* number returned is sgn * x times 10 for each multiplication (muls) and
\* divided by 10 for each division (divs); e is the exponent read.
Number(sgn, ip, fd, fn, e, muls, divs) ==
    [nan |-> FALSE, sgn |-> sgn, ip |-> ip, fd |-> fd, fn |-> fn,
     e |-> e, muls |-> muls, divs |-> divs]
NaN ==
    [nan |-> TRUE, sgn |-> 1, ip |-> 0, fd |-> 0, fn |-> 0,
     e |-> 0, muls |-> 0, divs |-> 0]

RECURSIVE fraction(_, _, _)
\* the lambda fraction: while (v and ::isdigit(*v)) { x += (*v - '0') * e;
\* e /= 10; ++v; }
fraction(w, fd, fn) ==
    IF bool(w) /\ isdigit(at(w.buf))
    THEN fraction(incr(w), 10 * fd + (at(w.buf) - 48), fn + 1)
    ELSE [v |-> w, fd |-> fd, fn |-> fn]

RECURSIVE integer(_, _)
\* the lambda integer: while (v and ::isdigit(*v)) { x = 10 * x + (*v - '0');
\* ++v; }
integer(w, x) ==
    IF bool(w) /\ isdigit(at(w.buf))
    THEN integer(incr(w), 10 * x + (at(w.buf) - 48))
    ELSE [v |-> w, x |-> x]

\* the mantissa: v behind it and x (nan when no digit leads)
mantissa(w) ==
    IF bool(w) /\ at(w.buf) = 48
    THEN LET d == only(eat(only(drop(w, 1)), 46))
         IN  IF bool(d)
             THEN LET f == fraction(d, 0, 0)
                  IN  [v |-> f.v, nan |-> FALSE, ip |-> 0, fd |-> f.fd, fn |-> f.fn]
             ELSE [v |-> d, nan |-> FALSE, ip |-> 0, fd |-> 0, fn |-> 0]
    ELSE IF bool(w) /\ at(w.buf) >= 49 /\ at(w.buf) <= 57
    THEN LET i == integer(w, 0)
         IN  IF bool(i.v) /\ at(i.v.buf) = 46
             THEN LET f == fraction(only(drop(i.v, 1)), 0, 0)
                  IN  [v |-> f.v, nan |-> FALSE, ip |-> i.x, fd |-> f.fd, fn |-> f.fn]
             ELSE [v |-> i.v, nan |-> FALSE, ip |-> i.x, fd |-> 0, fn |-> 0]
    ELSE [v |-> w, nan |-> TRUE, ip |-> 0, fd |-> 0, fn |-> 0]

\* the exponent: v behind it and e
exponent(w) ==
    LET hasE == bool(w) /\ toupper(at(w.buf)) = 69
        p == IF hasE THEN only(drop(w, 1)) ELSE w
        plus == hasE /\ bool(p) /\ at(p.buf) = 43
        minus == hasE /\ ~plus /\ bool(p) /\ at(p.buf) = 45
        q == IF plus \/ minus THEN only(drop(p, 1)) ELSE p
        i == integer(q, 0)
    IN  [v |-> i.v, e |-> (IF minus THEN -1 ELSE 1) * i.x]

RECURSIVE mul_loop(_, _)
\* while (e-- > 0) num *= 10;  e at exit and the multiplications made
mul_loop(e, n) == IF e > 0 THEN mul_loop(e - 1, n + 1) ELSE [e |-> e - 1, n |-> n]

RECURSIVE div_loop(_, _)
\* while (e++ < 0) num /= 10;  e at exit and the divisions made
div_loop(e, n) == IF e < 0 THEN div_loop(e + 1, n + 1) ELSE [e |-> e + 1, n |-> n]

\* parse_number(char_view<T>& v): what it leaves in v and what it returns
parse_number(w) ==
    LET a == only(ws_trim(w)).view
        neg == bool(a) /\ at(a.buf) = 45
        b == IF neg THEN only(eat(a, 45)) ELSE a
        sgn == IF neg THEN -1 ELSE 1
        m == mantissa(b)
        x == exponent(m.v)
        muls == mul_loop(x.e, 0)
        divs == div_loop(muls.e, 0)
    IN  [v |-> x.v,
         ret |-> IF m.nan \/ (bool(x.v) /\ ~is_space(at(x.v.buf))) THEN NaN
                 ELSE Number(sgn, m.ip, m.fd, m.fn, x.e, muls.n, divs.n)]

\* the characters in the window of w
Text(w) == [i \in 1 .. abs(w.len) |-> at(w.buf + i - 1)]

RECURSIVE parse_string_loop(_)
\* while (v_ and *v_ != '"') { if (*v_ == '\\') { ++v_; if (v_ and *v_ == '"')
\* ++v_; } else ++v_; }: v_ at exit
parse_string_loop(w) ==
    IF ~(bool(w) /\ at(w.buf) # 34) THEN w
    ELSE IF at(w.buf) = 92
         THEN LET x == incr(w)
              IN  parse_string_loop(IF bool(x) /\ at(x.buf) = 34 THEN incr(x) ELSE x)
         ELSE parse_string_loop(incr(w))

\* parse_string(char_view<T>& v): what it leaves in v and the window of the
\* String(v_.buf, v_.len) it returns
parse_string(w) ==
    LET x == parse_string_loop(w)
    IN  IF bool(x) /\ at(x.buf) = 34
        THEN [v |-> x, ret |-> only(take(w, x.buf - w.buf))]
        ELSE [v |-> w, ret |-> x]

\* A JSON value: its type and, by type, the text of a string, the elements
\* of an array in order, the members of an object, the number.
Value(type, str, arr, obj, num) ==
    [type |-> type, str |-> str, arr |-> arr, obj |-> obj, num |-> num]
\* Value val; as default constructed
Null == Value("null", <<>>, <<>>, {}, NaN)
True == Value("true", <<>>, <<>>, {}, NaN)
False == Value("false", <<>>, <<>>, {}, NaN)

\* o.insert(m) on a std::map keyed by the member's string: a member whose key
\* is in the map already is not inserted
insert(o, m) == IF \E x \in o : x.key = m.key THEN o ELSE o \cup {m}

\* *v can be read: v.buf is in the caller's array. An error view that a drop
\* has moved out of the array is followed no further.
Readable(w) == w.buf \in 0 .. Len(mem) - 1

\* v.ws_trim(); v.eat(t);
trim_eat(w, t) ==
    IF ~Readable(w) THEN {w}
    ELSE UNION {eat(x.view, t) : x \in ws_trim(w)}

RECURSIVE parse_value(_)
RECURSIVE parse_member(_)
RECURSIVE parse_object_loop(_, _)
RECURSIVE parse_array_loop(_, _)

\* parse_member(char_view<T>& v): what it leaves in v, and the member
parse_member(w) ==
    LET a == only(ws_trim(w)).view
        k == parse_string(a)
        key == Text(k.ret)
        b == only(ws_trim(k.v)).view
    IN  IF ~bool(b) THEN {[v |-> b, key |-> key, val |-> Null]}
        ELSE UNION {IF bool(x)
                    THEN {[v |-> p.v, key |-> key, val |-> p.val]
                            : p \in parse_value(only(ws_trim(x)).view)}
                    ELSE {[v |-> x, key |-> key, val |-> Null]}
                        : x \in eat(b, 58)}

\* while (v.ws_trim() and *v == ',') { v.eat(','); o.insert(parse_member(v)); }
parse_object_loop(w, o) ==
    IF ~Readable(w) THEN {[v |-> w, o |-> o]} ELSE
    UNION {IF bool(t.view) /\ at(t.view.buf) = 44
           THEN UNION {UNION {parse_object_loop(m.v, insert(o, [key |-> m.key, val |-> m.val]))
                                : m \in parse_member(x)}
                        : x \in eat(t.view, 44)}
           ELSE {[v |-> t.view, o |-> o]}
               : t \in ws_trim(w)}

\* parse_object(char_view<T>& v)
parse_object(w) ==
    UNION {parse_object_loop(m.v, insert({}, [key |-> m.key, val |-> m.val]))
            : m \in parse_member(w)}

\* while (v.ws_trim() and v.eat(',')) a.push_back(parse_value(v));
parse_array_loop(w, a) ==
    IF ~Readable(w) THEN {[v |-> w, a |-> a]} ELSE
    UNION {IF ~bool(t.view) THEN {[v |-> t.view, a |-> a]}
           ELSE UNION {IF bool(x)
                       THEN UNION {parse_array_loop(p.v, Append(a, p.val))
                                    : p \in parse_value(x)}
                       ELSE {[v |-> x, a |-> a]}
                           : x \in eat(t.view, 44)}
               : t \in ws_trim(w)}

\* parse_array(char_view<T>& v)
parse_array(w) ==
    LET a == only(ws_trim(w)).view
    IN  IF ~bool(a) THEN {[v |-> a, a |-> <<>>]}
        ELSE UNION {parse_array_loop(p.v, <<p.val>>) : p \in parse_value(a)}

\* parse_value(char_view<T>& v): what it leaves in v, and the value
parse_value(w) ==
    LET a == only(ws_trim(w)).view
    IN  IF ~bool(a) THEN {[v |-> a, val |-> Null]}
        ELSE IF at(a.buf) = 123
        THEN UNION {{[v |-> x, val |-> Value("object", <<>>, <<>>, o.o, NaN)]
                        : x \in trim_eat(o.v, 125)}
                    : o \in parse_object(only(eat(a, 123)))}
        ELSE IF at(a.buf) = 91
        THEN UNION {{[v |-> x, val |-> Value("array", <<>>, r.a, {}, NaN)]
                        : x \in trim_eat(r.v, 93)}
                    : r \in parse_array(only(eat(a, 91)))}
        ELSE IF at(a.buf) = 34
        THEN LET k == parse_string(only(eat(a, 34)))
             IN  {[v |-> x, val |-> Value("string", Text(k.ret), <<>>, {}, NaN)]
                    : x \in eat(k.v, 34)}
        ELSE IF bool(parse_null(a)) THEN {[v |-> a, val |-> Null]}
        ELSE LET t == parse_true(a)
                 f == parse_false(t.v)
                 n == parse_number(f.v)
             IN  IF t.ret THEN {[v |-> t.v, val |-> True]}
                 ELSE IF f.ret THEN {[v |-> f.v, val |-> False]}
                 ELSE {[v |-> n.v, val |-> Value("number", <<>>, <<>>, {}, n.ret)]}

\* ---------------------------------------------------------- fms_parse.h
\* The value read from an int that was never assigned: any int.
Indeterminate == {0, 1}

RECURSIVE from_chars_digits(_, _, _)
\* the digits std::from_chars reads from w: how many, and their value
from_chars_digits(w, n, x) ==
    IF bool(w) /\ isdigit(at(w.buf))
    THEN from_chars_digits(incr(w), n + 1, 10 * x + (at(w.buf) - 48))
    ELSE [n |-> n, x |-> x]

\* std::from_chars(v.buf, v.buf + v.len, x) for an int x: a '-' if there is
\* one, then one or more digits.  ok is result.ec == std::errc(), n is
\* result.ptr - v.buf.
from_chars(w) ==
    LET neg == bool(w) /\ at(w.buf) = 45
        r == from_chars_digits(IF neg THEN incr(w) ELSE w, 0, 0)
    IN  [ok |-> r.n > 0,
         n |-> IF neg THEN r.n + 1 ELSE r.n,
         x |-> IF neg THEN -r.x ELSE r.x]

\* to<int>(char_view& v): what it leaves in v, and the int returned
to(w) ==
    LET r == from_chars(w)
    IN  IF r.ok THEN {[v |-> only(drop(w, r.n)), x |-> r.x]}
        ELSE {[v |-> View("to: std::from_chars failed", -1), x |-> g]
                : g \in Indeterminate}

\* faulty variant: any of the two separators is taken between month and day
month_day_any_separator(w, c, y, m) ==
    IF ~bool(w) THEN {[v |-> w, ymd |-> <<y, m, g>>] : g \in Indeterminate}
    ELSE IF front(w) \notin {45, 47}
    THEN {[v |-> View("to_ymd: invalid month-day separator", -1),
           ymd |-> <<y, m, g>>] : g \in Indeterminate}
    ELSE {[v |-> d.v, ymd |-> <<y, m, d.x>>] : d \in to(only(eat(w, front(w))))}

\* to_ymd behind the month: if (v) { if (v.front() != c) ... else { v.eat(c);
\* d = to<int>(v); } }
month_day(w, c, y, m) ==
    IF ~bool(w) THEN {[v |-> w, ymd |-> <<y, m, g>>] : g \in Indeterminate}
    ELSE IF front(w) # c
    THEN {[v |-> View("to_ymd: invalid month-day separator", -1),
           ymd |-> <<y, m, g>>] : g \in Indeterminate}
    ELSE {[v |-> d.v, ymd |-> <<y, m, d.x>>] : d \in to(only(eat(w, c)))}

\* to_ymd behind the year: the separator c and the month
year_month(w, y) ==
    IF ~bool(w)
    THEN {[v |-> w, ymd |-> <<y, g, h>>] : g \in Indeterminate, h \in Indeterminate}
    ELSE LET c == front(w)
         IN  IF c # 45 /\ c # 47
             THEN {[v |-> View("to_ymd: invalid year-month separator", -1),
                    ymd |-> <<y, g, h>>] : g \in Indeterminate, h \in Indeterminate}
             ELSE UNION {month_day(m.v, c, y, m.x) : m \in to(only(eat(w, c)))}

\* to_ymd(char_view& v): what it leaves in v, and the tuple returned
to_ymd(w) ==
    IF ~bool(w)
    THEN {[v |-> w, ymd |-> <<f, g, h>>]
            : f \in Indeterminate, g \in Indeterminate, h \in Indeterminate}
    ELSE UNION {year_month(y.v, y.x) : y \in to(w)}

\* ------------------------------------------------------------- the calls
Call(op, n, s, pre, ret, b, steps) ==
    [op |-> op, n |-> n, s |-> s, pre |-> pre, ret |-> ret, b |-> b, steps |-> steps]

\* the literals handed to eat and equal, and the counts given with them
Literals == {CString(s) : s \in Strings(LitAlphabet, MaxLit)}
Counts(s) == 0 .. Len(s) - 1

\* no JSON parsing function has been called
NoResult == [op |-> "none"]

\* no splitable has been constructed and no loop runs
NoLoop ==
    /\ ss = Splitable(View(0, 0), View(0, 0), 0, 0, 0, 0)
    /\ fs = Splitable(View(0, 0), View(0, 0), 0, 0, 0, 0)
    /\ out = <<>>
    /\ pc = "none"
    /\ incs = 0

Init ==
    /\ mem \in {CString(s) : s \in Strings(Alphabet, MaxLen)}
    /\ v = char_view(0, 0)
    /\ call = Call("char_view", 0, <<0>>, v, v, FALSE, 0)
    /\ NoLoop
    /\ res = NoResult

\* v = char_view(buf + b, l): a counted or null terminated part of the array
Construct ==
    \E b \in 0 .. Len(mem) - 1 : \E l \in 0 .. Len(mem) - 1 - b :
        /\ v' = char_view(b, l)
        /\ call' = Call("char_view", l, <<b>>, v', v', FALSE, 0)
        /\ UNCHANGED <<res, mem, iter>>

Take ==
    /\ InBuf(v)
    /\ \E n \in -(MaxLen + 1) .. MaxLen + 1 : \E w \in take(v, n) :
        /\ v' = w
        /\ call' = Call("take", n, <<>>, v, w, FALSE, 0)
        /\ UNCHANGED <<res, mem, iter>>

Drop ==
    /\ InBuf(v)
    /\ \E n \in -(MaxLen + 1) .. MaxLen + 1 : \E w \in drop(v, n) :
        /\ v' = w
        /\ call' = Call("drop", n, <<>>, v, w, FALSE, 0)
        /\ UNCHANGED <<res, mem, iter>>

Incr ==
    /\ InBuf(v)
    /\ v' = incr(v)
    /\ call' = Call("operator++", 0, <<>>, v, v', FALSE, 0)
    /\ UNCHANGED <<res, mem, iter>>

\* v = v.error()
Error ==
    /\ InBuf(v)
    /\ v' = error(v)
    /\ call' = Call("error", 0, <<>>, v, v', FALSE, 0)
    /\ UNCHANGED <<res, mem, iter>>

\* v.eat(t)
Eat ==
    /\ InBuf(v)
    /\ \E t \in Alphabet : \E w \in eat(v, t) :
        /\ v' = w
        /\ call' = Call("eat", 0, <<t>>, v, w, FALSE, 0)
        /\ UNCHANGED <<res, mem, iter>>

\* v.eat(s, n)
EatStr ==
    /\ InBuf(v)
    /\ \E s \in Literals : \E n \in Counts(s) : \E w \in eat_str(v, s, n) :
        /\ v' = w
        /\ call' = Call("eat_str", n, s, v, w, FALSE, 0)
        /\ UNCHANGED <<res, mem, iter>>

\* v.ws_trim(); the loop is followed for views that are not errors
WsTrim ==
    /\ InBuf(v) /\ ~is_error(v)
    /\ \E x \in ws_trim(v) :
        /\ v' = x.view
        /\ call' = Call("ws_trim", 0, <<>>, v, x.view, FALSE, x.steps)
        /\ UNCHANGED <<res, mem, iter>>

\* v.trim_ws()
TrimWs ==
    /\ InBuf(v) /\ ~is_error(v)
    /\ \E x \in trim_ws(v) :
        /\ v' = x.view
        /\ call' = Call("trim_ws", 0, <<>>, v, x.view, FALSE, x.steps)
        /\ UNCHANGED <<res, mem, iter>>

\* v.trim()
Trim ==
    /\ InBuf(v) /\ ~is_error(v)
    /\ \E x \in trim(v) :
        /\ v' = x.view
        /\ call' = Call("trim", 0, <<>>, v, x.view, FALSE, x.steps)
        /\ UNCHANGED <<res, mem, iter>>

\* v.equal(s, n): const, v is left alone
Equal ==
    /\ InBuf(v)
    /\ \E s \in Literals : \E n \in Counts(s) :
        /\ call' = Call("equal", n, s, v, v, equal(v, s, n), 0)
        /\ UNCHANGED <<res, mem, v, iter>>

\* all calls on views of a short text
Next ==
    \/ Construct \/ Take \/ Drop \/ Incr \/ Error
    \/ Eat \/ EatStr \/ Equal

Spec == Init /\ [][Next]_vars

\* the calls of fms::view alone: windows and error views
NextView == Construct \/ Take \/ Drop \/ Incr \/ Error

SpecView == Init /\ [][NextView]_vars

\* the matching calls of fms::char_view alone
NextEat == Construct \/ Eat \/ EatStr \/ Equal

SpecEat == Init /\ [][NextEat]_vars

\* the trimming calls on views of a text rich in white space
InitTrim ==
    /\ mem \in {CString(s) : s \in Strings(TrimAlphabet, MaxTrimLen)}
    /\ v = char_view(0, 0)
    /\ call = Call("char_view", 0, <<0>>, v, v, FALSE, 0)
    /\ NoLoop
    /\ res = NoResult

NextTrim == Construct \/ WsTrim \/ TrimWs \/ Trim

SpecTrim == InitTrim /\ [][NextTrim]_vars

\* split on texts with delimiters, nesting pairs and escapes
InitSplit ==
    /\ mem \in {CString(s) : s \in Strings(SplitAlphabet, MaxSplitLen)}
    /\ v = char_view(0, 0)
    /\ call = Call("char_view", 0, <<0>>, v, v, FALSE, 0)
    /\ NoLoop
    /\ res = NoResult

\* f = split(v, c, l, r, e): v is passed by value, so the callee works on a
\* copy and the caller's v keeps its value
Split ==
    /\ InBuf(v)
    /\ \E c \in {44} : \E lr \in {<<0, 0>>, <<123, 125>>} : \E e \in {0, 92} :
       \E x \in split(v, c, lr[1], lr[2], e) :
        /\ call' = Call("split", 0, <<c, lr[1], lr[2], e>>, v, x.ret, FALSE, 0)
        /\ UNCHANGED <<res, mem, v, iter>>

NextSplit == Split

SpecSplit == InitSplit /\ [][NextSplit]_vars

\* a loop over the fields of a text:
\*   for (splitable ss(v, c); ss; ++ss) out.push_back(*ss);
InitIter ==
    /\ mem \in {CString(s) : s \in Strings(IterAlphabet, MaxIterLen)}
    /\ v = char_view(0, 0)
    /\ call = Call("char_view", 0, <<0>>, v, v, FALSE, 0)
    /\ ss = Splitable(View(0, 0), View(0, 0), 0, 0, 0, 0)
    /\ fs = Splitable(View(0, 0), View(0, 0), 0, 0, 0, 0)
    /\ out = <<>>
    /\ pc = "start"
    /\ incs = 0
    /\ res = NoResult

\* splitable ss(v, c)
SsConstruct ==
    /\ pc = "start"
    /\ \E c \in {44, 59} : \E x \in splitable(v, c, 0, 0, 0) :
        /\ ss' = x
        /\ call' = Call("splitable", 0, <<c, 0, 0, 0>>, v, x.v, splitable_bool(x), 0)
    /\ pc' = "test"
    /\ UNCHANGED <<res, mem, v, fs, out, incs>>

\* the loop condition: explicit operator bool
SsBool ==
    /\ pc = "test"
    /\ pc' = IF splitable_bool(ss) THEN "body" ELSE "done"
    /\ call' = Call("operator bool", 0, <<>>, ss.v_, ss.v, splitable_bool(ss), 0)
    /\ UNCHANGED <<res, mem, v, ss, fs, out, incs>>

\* the loop body: operator*
SsDeref ==
    /\ pc = "body"
    /\ out' = Append(out, splitable_deref(ss))
    /\ pc' = "incr"
    /\ call' = Call("operator*", 0, <<>>, ss.v_, splitable_deref(ss), FALSE, 0)
    /\ UNCHANGED <<res, mem, v, ss, fs, incs>>

\* ++ss; call.pre is the cursor and call.b the truth value before the call
SsIncrement ==
    /\ pc = "incr"
    /\ incs < MaxIncr
    /\ \E x \in splitable_increment(ss) :
        /\ ss' = x
        /\ call' = Call("operator++", 0, <<>>, ss.v_, x.v, splitable_bool(ss), 0)
    /\ incs' = incs + 1
    /\ pc' = "test"
    /\ UNCHANGED <<res, mem, v, fs, out>>

NextIter == SsConstruct \/ SsBool \/ SsDeref \/ SsIncrement

SpecIter == InitIter /\ [][NextIter]_vars

\* the two level loop of the csv test:
\*   for (splitable ss(v, ';'); ss; ++ss)            // records
\*       for (splitable fs(*ss, ','); fs; ++fs)      // fields
\*           out.push_back(*fs);
InitCsv ==
    /\ mem \in {CString(s) : s \in Strings(IterAlphabet, MaxIterLen)}
    /\ v = char_view(0, 0)
    /\ call = Call("char_view", 0, <<0>>, v, v, FALSE, 0)
    /\ ss = Splitable(View(0, 0), View(0, 0), 0, 0, 0, 0)
    /\ fs = Splitable(View(0, 0), View(0, 0), 0, 0, 0, 0)
    /\ out = <<>>
    /\ pc = "records"
    /\ incs = 0
    /\ res = NoResult

\* splitable ss(v, ';')
CsvRecords ==
    /\ pc = "records"
    /\ \E x \in splitable(v, 59, 0, 0, 0) :
        /\ ss' = x
        /\ call' = Call("splitable", 0, <<59, 0, 0, 0>>, v, x.v, splitable_bool(x), 0)
    /\ pc' = "record?"
    /\ UNCHANGED <<res, mem, v, fs, out, incs>>

\* the condition of the outer loop
CsvRecordBool ==
    /\ pc = "record?"
    /\ pc' = IF splitable_bool(ss) THEN "fields" ELSE "done"
    /\ call' = Call("operator bool", 0, <<>>, ss.v_, ss.v, splitable_bool(ss), 0)
    /\ UNCHANGED <<res, mem, v, ss, fs, out, incs>>

\* splitable fs(*ss, ',')
CsvFields ==
    /\ pc = "fields"
    /\ \E x \in splitable(splitable_deref(ss), 44, 0, 0, 0) :
        /\ fs' = x
        /\ call' = Call("splitable", 0, <<44, 0, 0, 0>>, splitable_deref(ss), x.v,
                        splitable_bool(x), 0)
    /\ pc' = "field?"
    /\ UNCHANGED <<res, mem, v, ss, out, incs>>

\* the condition of the inner loop
CsvFieldBool ==
    /\ pc = "field?"
    /\ pc' = IF splitable_bool(fs) THEN "field" ELSE "++record"
    /\ call' = Call("operator bool", 0, <<>>, fs.v_, fs.v, splitable_bool(fs), 0)
    /\ UNCHANGED <<res, mem, v, ss, fs, out, incs>>

\* the body of the inner loop: *fs
CsvField ==
    /\ pc = "field"
    /\ out' = Append(out, splitable_deref(fs))
    /\ pc' = "++field"
    /\ call' = Call("operator*", 0, <<>>, fs.v_, splitable_deref(fs), FALSE, 0)
    /\ UNCHANGED <<res, mem, v, ss, fs, incs>>

\* ++fs
CsvFieldIncrement ==
    /\ pc = "++field"
    /\ incs < MaxIncr
    /\ \E x \in splitable_increment(fs) :
        /\ fs' = x
        /\ call' = Call("operator++", 0, <<>>, fs.v_, x.v, splitable_bool(fs), 0)
    /\ incs' = incs + 1
    /\ pc' = "field?"
    /\ UNCHANGED <<res, mem, v, ss, out>>

\* ++ss
CsvRecordIncrement ==
    /\ pc = "++record"
    /\ incs < MaxIncr
    /\ \E x \in splitable_increment(ss) :
        /\ ss' = x
        /\ call' = Call("operator++", 0, <<>>, ss.v_, x.v, splitable_bool(ss), 0)
    /\ incs' = incs + 1
    /\ pc' = "record?"
    /\ UNCHANGED <<res, mem, v, fs, out>>

NextCsv ==
    \/ CsvRecords \/ CsvRecordBool \/ CsvFields \/ CsvFieldBool
    \/ CsvField \/ CsvFieldIncrement \/ CsvRecordIncrement

SpecCsv == InitCsv /\ [][NextCsv]_vars

\* the literal matchers of the JSON parser on short texts
InitLiteral ==
    /\ mem \in {CString(s) : s \in Strings(LiteralAlphabet, MaxLiteralLen)}
    /\ v = char_view(0, 0)
    /\ call = Call("char_view", 0, <<0>>, v, v, FALSE, 0)
    /\ NoLoop
    /\ res = NoResult

\* parse_null(v): v is passed by value; call.b is the truth value of the view
\* returned, which is what parse_value branches on
ParseNull ==
    /\ InBuf(v) /\ ~is_error(v)
    /\ res' = parse_null(v)
    /\ call' = Call("parse_null", 4, null, v, parse_null(v), bool(parse_null(v)), 0)
    /\ UNCHANGED <<mem, v, iter>>

\* parse_true(v)
ParseTrue ==
    /\ InBuf(v) /\ ~is_error(v)
    /\ v' = parse_true(v).v
    /\ res' = parse_true(v).ret
    /\ call' = Call("parse_true", 4, true, v, v', parse_true(v).ret, 0)
    /\ UNCHANGED <<mem, iter>>

\* parse_false(v)
ParseFalse ==
    /\ InBuf(v) /\ ~is_error(v)
    /\ v' = parse_false(v).v
    /\ res' = parse_false(v).ret
    /\ call' = Call("parse_false", 5, false, v, v', parse_false(v).ret, 0)
    /\ UNCHANGED <<mem, iter>>

\* is_null(v)
IsNull ==
    /\ InBuf(v) /\ ~is_error(v)
    /\ v' = is_null(v).v
    /\ res' = is_null(v).ret
    /\ call' = Call("is_null", 4, null, v, v', is_null(v).ret, 0)
    /\ UNCHANGED <<mem, iter>>

\* is_true(v)
IsTrue ==
    /\ InBuf(v) /\ ~is_error(v)
    /\ v' = is_true(v).v
    /\ res' = is_true(v).ret
    /\ call' = Call("is_true", 4, true, v, v', is_true(v).ret, 0)
    /\ UNCHANGED <<mem, iter>>

\* is_false(v)
IsFalse ==
    /\ InBuf(v) /\ ~is_error(v)
    /\ v' = is_false(v).v
    /\ res' = is_false(v).ret
    /\ call' = Call("is_false", 5, false, v, v', is_false(v).ret, 0)
    /\ UNCHANGED <<mem, iter>>

NextLiteral ==
    \/ ParseNull \/ ParseTrue \/ ParseFalse
    \/ IsNull \/ IsTrue \/ IsFalse

SpecLiteral == InitLiteral /\ [][NextLiteral]_vars

\* parse_number on short texts; a second call is made on what the first left
InitNumber ==
    /\ mem \in {CString(s) : s \in Strings(NumberAlphabet, MaxNumberLen)}
    /\ v = char_view(0, 0)
    /\ call = Call("char_view", 0, <<0>>, v, v, FALSE, 0)
    /\ NoLoop
    /\ res = NoResult

\* x = parse_number(v)
ParseNumber ==
    /\ InBuf(v) /\ ~is_error(v)
    /\ v' = parse_number(v).v
    /\ res' = parse_number(v).ret
    /\ call' = Call("parse_number", 0, <<>>, v, v', parse_number(v).ret.nan, 0)
    /\ UNCHANGED <<mem, iter>>

NextNumber == ParseNumber

SpecNumber == InitNumber /\ [][NextNumber]_vars

\* parse_string on short texts of quotes and backslashes
InitString ==
    /\ mem \in {CString(s) : s \in Strings(StringAlphabet, MaxStringLen)}
    /\ v = char_view(0, 0)
    /\ call = Call("char_view", 0, <<0>>, v, v, FALSE, 0)
    /\ NoLoop
    /\ res = NoResult

\* s = parse_string(v); res is the text of the String returned
ParseString ==
    /\ InBuf(v) /\ ~is_error(v)
    /\ v' = parse_string(v).v
    /\ res' = Text(parse_string(v).ret)
    /\ call' = Call("parse_string", 0, <<>>, v, parse_string(v).ret, FALSE, 0)
    /\ UNCHANGED <<mem, iter>>

\* v.eat('"'): the caller steps over the closing quote
EatQuote ==
    /\ InBuf(v) /\ ~is_error(v)
    /\ \E x \in eat(v, 34) :
        /\ v' = x
        /\ call' = Call("eat", 0, <<34>>, v, x, FALSE, 0)
    /\ UNCHANGED <<res, mem, iter>>

NextString == ParseString \/ EatQuote

SpecString == InitString /\ [][NextString]_vars

\* ---- to_ymd
InitYmd ==
    /\ mem \in {CString(s) : s \in Strings(YmdAlphabet, MaxYmdLen)}
    /\ v = char_view(0, 0)
    /\ call = Call("char_view", 0, <<0>>, v, v, FALSE, 0)
    /\ NoLoop
    /\ res = NoResult

\* auto [y, m, d] = to_ymd(v); res is the tuple returned
ToYmd ==
    /\ ~is_error(v) /\ InBuf(v)
    /\ \E r \in to_ymd(v) :
        /\ v' = r.v
        /\ res' = r.ymd
        /\ call' = Call("to_ymd", 0, <<>>, v, v, FALSE, 0)
    /\ UNCHANGED <<mem, iter>>

NextYmd == ToYmd

SpecYmd == InitYmd /\ [][NextYmd]_vars

\* ---- the calls that shorten a view
NextWindow == Construct \/ Take \/ Drop \/ Incr \/ WsTrim \/ TrimWs

SpecWindow == Init /\ [][NextWindow]_vars

\* ---- parse_value on array texts
InitJson ==
    /\ mem \in {CString(s) : s \in Strings(JsonAlphabet, MaxJsonLen)}
    /\ v = char_view(0, 0)
    /\ call = Call("char_view", 0, <<0>>, v, v, FALSE, 0)
    /\ NoLoop
    /\ res = NoResult

\* val = parse_value(v); res is the value returned
ParseValue ==
    /\ InBuf(v) /\ ~is_error(v)
    /\ \E p \in parse_value(v) :
        /\ v' = p.v
        /\ res' = p.val
        /\ call' = Call("parse_value", 0, <<>>, v, p.v, FALSE, 0)
    /\ UNCHANGED <<mem, iter>>

NextJson == ParseValue

SpecJson == InitJson /\ [][NextJson]_vars

\* ---- parse_value on object texts
\* "a":1  "a":[]  "b":1  "b":[]
Members ==
    {<<34, k, 34, 58>> \o x : k \in {97, 98}, x \in {<<49>>, <<91, 93>>}}

\* the texts of up to MaxMembers members, in order
MemberLists == Strings(Members, MaxMembers)

RECURSIVE MemberText(_)
\* the members of ms, separated by ','
MemberText(ms) ==
    IF ms = <<>> THEN <<>>
    ELSE IF Len(ms) = 1 THEN ms[1]
    ELSE ms[1] \o <<44>> \o MemberText(Tail(ms))

\* '{', the members, and '}' when the object text is closed
ObjectText(ms, closed) ==
    <<123>> \o MemberText(ms) \o (IF closed THEN <<125>> ELSE <<>>)

InitObject ==
    /\ mem \in {CString(ObjectText(ms, c)) : ms \in MemberLists, c \in BOOLEAN}
    /\ v = char_view(0, 0)
    /\ call = Call("char_view", 0, <<0>>, v, v, FALSE, 0)
    /\ NoLoop
    /\ res = NoResult

NextObject == ParseValue

SpecObject == InitObject /\ [][NextObject]_vars

\* ---------------------------------------------------------------- claims
\* the offsets of the array the window of w covers
Window(w) == w.buf .. (w.buf + abs(w.len) - 1)

\* C1: on a view that is no error, take(n) keeps the first min(n, L)
\* elements for n >= 0 and the last min(|n|, L) for n < 0; with |n| >= L the
\* view is left identical and take(0) leaves it empty.
C1_TakeKeepsEnd ==
    (call.op = "take" /\ call.pre.len >= 0) =>
        LET L == call.pre.len
            n == call.n
            k == Min(abs(n), L)
        IN  /\ v = IF n >= 0 THEN View(call.pre.buf, k)
                              ELSE View(call.pre.buf + L - k, k)
            /\ (abs(n) >= L => v = call.pre)
            /\ (n = 0 => v.len = 0)
            /\ call.ret = v

\* take(-1) of a view of three elements kept the last one
C1_Witness ==
    /\ call.op = "take" /\ call.n = -1 /\ call.pre = View(0, 3)
    /\ v = View(2, 1)

\* C2: on a view that is no error, drop(n) removes the first min(n, L)
\* elements for n >= 0 and the last min(|n|, L) for n < 0; drop(0) leaves the
\* view identical, |n| >= L leaves it empty, and what remains is the part of
\* the original window that take(n) does not keep.
C2_DropRemovesEnd ==
    (call.op = "drop" /\ call.pre.len >= 0) =>
        LET L == call.pre.len
            n == call.n
            k == Min(abs(n), L)
        IN  /\ v = IF n >= 0 THEN View(call.pre.buf + k, L - k)
                              ELSE View(call.pre.buf, L - k)
            /\ (n = 0 => v = call.pre)
            /\ (abs(n) >= L => v.len = 0)
            /\ \A w \in take(call.pre, n) :
                  /\ Window(v) \cap Window(w) = {}
                  /\ Window(v) \cup Window(w) = Window(call.pre)
            /\ call.ret = v

\* drop(-2) of a view of three elements left the first one
C2_Witness ==
    /\ call.op = "drop" /\ call.n = -2 /\ call.pre = View(0, 3)
    /\ v = View(0, 1)

\* C3: for every view, an error view with len < 0 included, and every n, the
\* window after take(n) or drop(n) lies inside the window before the call:
\* |len| does not grow and buf stays within the original [buf, buf + |len|].
C3_TakeDropSubView ==
    call.op \in {"take", "drop"} =>
        /\ abs(v.len) <= abs(call.pre.len)
        /\ call.pre.buf <= v.buf
        /\ v.buf + abs(v.len) <= call.pre.buf + abs(call.pre.len)

C5_EatFailureLeavesView ==
    (/\ call.op = "eat"
     /\ call.pre.len >= 0
     /\ (call.pre.len = 0 \/ at(call.pre.buf) # call.s[1])) =>
        /\ ~bool(call.ret)
        /\ equal(v, CString(Text(call.pre)), 0)

\* C6: when v.eat(s) fails, the window of v is the one it had before the
\* call: no character of a matched prefix of s stays consumed.
C6_EatStrAllOrNothing ==
    (call.op = "eat_str" /\ call.pre.len >= 0 /\ is_error(v)) =>
        /\ v.buf = call.pre.buf
        /\ Text(error_view(v)) = Text(call.pre)

\* space, tab, LF, CR, FF, VT
WhiteSpace == {32, 9, 10, 13, 12, 11}
\* the length of the longest run of white space at the front / back of w
LeadingRun(w) ==
    CHOOSE k \in 0 .. w.len :
        /\ \A i \in 0 .. k - 1 : at(w.buf + i) \in WhiteSpace
        /\ (k = w.len \/ at(w.buf + k) \notin WhiteSpace)
TrailingRun(w) ==
    CHOOSE k \in 0 .. w.len :
        /\ \A i \in 1 .. k : at(w.buf + w.len - i) \in WhiteSpace
        /\ (k = w.len \/ at(w.buf + w.len - k - 1) \notin WhiteSpace)

\* C7: on a view that is no error, ws_trim removes exactly the longest run
\* of leading white space and trim_ws exactly the longest run of trailing
\* white space; each takes at most len steps, and a second application
\* changes nothing.
C7_TrimRemovesRun ==
    /\ call.op = "ws_trim" =>
          /\ v = View(call.pre.buf + LeadingRun(call.pre),
                      call.pre.len - LeadingRun(call.pre))
          /\ call.steps <= call.pre.len
          /\ ws_trim(v) = {[view |-> v, steps |-> 0]}
    /\ call.op = "trim_ws" =>
          /\ v = View(call.pre.buf, call.pre.len - TrailingRun(call.pre))
          /\ call.steps <= call.pre.len
          /\ trim_ws(v) = {[view |-> v, steps |-> 0]}

\* ws_trim removed a tab and a form feed in front of 'a'
C7_Witness ==
    /\ call.op = "ws_trim" /\ call.pre = View(0, 3)
    /\ mem = <<9, 12, 97, 0>>
    /\ v = View(2, 1) /\ call.steps = 2

FirstAt(w, c) ==
    CHOOSE k \in 0 .. w.len :
        /\ \A i \in 0 .. k - 1 : at(w.buf + i) # c
        /\ (k = w.len \/ at(w.buf + k) = c)

\* C9: on a source view without open, close or escape characters, split
\* returns the characters before the first c and leaves the caller's view at
\* the character after that c; without a c the field is the whole view and
\* the caller's view becomes empty.
C9_SplitAdvancesSource ==
    (/\ call.op = "split"
     /\ call.pre.len >= 0
     /\ \A i \in 0 .. call.pre.len - 1 :
           at(call.pre.buf + i) \notin {call.s[2], call.s[3], call.s[4]}) =>
        LET k == FirstAt(call.pre, call.s[1])
        IN  /\ call.ret = View(call.pre.buf, k)
            /\ v = IF k < call.pre.len
                   THEN View(call.pre.buf + k + 1, call.pre.len - k - 1)
                   ELSE View(call.pre.buf + call.pre.len, 0)

RECURSIVE Depth(_, _, _, _)
\* the nesting level in front of offset p of w: 1 on an open, one more on
\* each further open, one less on each close
Depth(w, p, l, r) ==
    IF p = 0 THEN 0
    ELSE LET d == Depth(w, p - 1, l, r)
             ch == at(w.buf + p - 1)
         IN  IF ch = l THEN d + 1
             ELSE IF ch = r /\ d > 0 THEN d - 1
             ELSE d

\* C10: without an escape character, a delimiter that stands between an
\* open character and its matching close character (nesting level >= 1)
\* never ends the field split returns.
C10_NestedDelimiterKept ==
    (/\ call.op = "split"
     /\ call.s[2] # 0 /\ call.s[4] = 0
     /\ ~is_error(call.ret)
     /\ call.ret.len < call.pre.len
     /\ at(call.pre.buf + call.ret.len) = call.s[1]) =>
        LET p == call.ret.len
            d == Depth(call.pre, p, call.s[2], call.s[3])
        IN  ~(/\ d >= 1
              /\ \E q \in p + 1 .. call.pre.len :
                    Depth(call.pre, q, call.s[2], call.s[3]) < d)

\* the delimiter at offset p of w stands at nesting level 0
Level0Delimiter(w, p, c, l, r) ==
    at(w.buf + p) = c /\ Depth(w, p, l, r) = 0

\* C11: without an escape character, the first delimiter at nesting level 0
\* ends the field wherever it stands, directly behind a close character
\* included: the field is the text in front of it.
C11_FirstLevel0DelimiterEnds ==
    (/\ call.op = "split"
     /\ call.s[2] # 0 /\ call.s[4] = 0
     /\ call.pre.len >= 0) =>
        \A p \in 0 .. call.pre.len - 1 :
            (/\ Level0Delimiter(call.pre, p, call.s[1], call.s[2], call.s[3])
             /\ \A q \in 0 .. p - 1 :
                   ~Level0Delimiter(call.pre, q, call.s[1], call.s[2], call.s[3]))
            => call.ret = View(call.pre.buf, p)

RECURSIVE Escaped(_, _, _)
\* the character at offset p of w follows an escape character that is not
\* itself escaped
Escaped(w, p, e) ==
    /\ p > 0
    /\ at(w.buf + p - 1) = e
    /\ ~Escaped(w, p - 1, e)

\* C12: with an escape character, the character behind an escape character
\* is never taken as the delimiter: the field split returns does not end at
\* an escaped delimiter.
C12_EscapedDelimiterKept ==
    (/\ call.op = "split"
     /\ call.s[4] # 0
     /\ ~is_error(call.ret)
     /\ call.ret.len < call.pre.len) =>
        ~Escaped(call.pre, call.ret.len, call.s[4])

\* C13: without an escape character, when the text ends at a nesting level
\* above 0 and no delimiter at level 0 stands in it, split returns an error
\* view and the caller's view is the one it was before the call.
C13_UnbalancedIsError ==
    (/\ call.op = "split"
     /\ call.s[2] # 0 /\ call.s[4] = 0
     /\ call.pre.len >= 0
     /\ Depth(call.pre, call.pre.len, call.s[2], call.s[3]) > 0
     /\ \A p \in 0 .. call.pre.len - 1 :
           ~Level0Delimiter(call.pre, p, call.s[1], call.s[2], call.s[3])) =>
        /\ is_error(call.ret)
        /\ v = call.pre

\* C14: a loop over a splitable ends: on a text of length L the splitable is
\* exhausted (operator bool false) after at most L + 1 calls of operator++,
\* since each call on a splitable that is not exhausted leaves the cursor
\* shorter than it was.
C14_IterationTerminates ==
    /\ (pc = "test" /\ incs >= v.len + 1) => ~splitable_bool(ss)
    /\ (call.op = "operator++" /\ call.b) => ss.v_.len < call.pre.len

\* the text t without its leading and trailing white space
TrimText(t) ==
    LET idx == {i \in 1 .. Len(t) : t[i] \notin WhiteSpace}
    IN  IF idx = {} THEN <<>>
        ELSE LET lo == CHOOSE i \in idx : \A j \in idx : i <= j
                 hi == CHOOSE i \in idx : \A j \in idx : j <= i
             IN  SubSeq(t, lo, hi)

RECURSIVE FieldsOf(_, _)
\* the pieces of the text t between its delimiters c, empty pieces included
FieldsOf(t, c) ==
    IF \A i \in 1 .. Len(t) : t[i] # c THEN <<t>>
    ELSE LET k == CHOOSE i \in 1 .. Len(t) :
                      t[i] = c /\ \A j \in 1 .. i - 1 : t[j] # c
         IN  <<SubSeq(t, 1, k - 1)>> \o FieldsOf(SubSeq(t, k + 1, Len(t)), c)

RECURSIVE Join(_, _)
\* the texts of the sequence q with c between consecutive ones
Join(q, c) ==
    IF q = <<>> THEN <<>>
    ELSE IF Len(q) = 1 THEN q[1]
    ELSE q[1] \o <<c>> \o Join(Tail(q), c)

\* the trimmed fields of the text of w on the delimiter c
TrimmedFields(w, c) ==
    LET f == FieldsOf(Text(w), c)
    IN  [i \in 1 .. Len(f) |-> TrimText(f[i])]

\* C15: without nesting characters, the fields a loop over a splitable is
\* handed are, in order, the trimmed fields of the text, empty fields
\* included: none is handed twice, and when the loop has ended the fields
\* joined with the delimiter give the trimmed fields of the text joined with it.
C15_SplitRejoin ==
    pc \in {"test", "body", "incr", "done"} =>
        LET ref == TrimmedFields(v, ss.c)
        IN  /\ Len(out) <= Len(ref)
            /\ \A i \in 1 .. Len(out) : i <= Len(ref) => Text(out[i]) = ref[i]
            /\ pc = "done" =>
                  Join([i \in 1 .. Len(out) |-> Text(out[i])], ss.c) = Join(ref, ss.c)

RECURSIVE Flatten(_)
\* the members of the sequences of q, in order
Flatten(q) == IF q = <<>> THEN <<>> ELSE q[1] \o Flatten(Tail(q))

\* the trimmed fields on ',' of the trimmed records on ';' of the text of w
CsvFieldsOf(w) ==
    LET recs == FieldsOf(Text(w), 59)
    IN  Flatten([i \in 1 .. Len(recs) |->
                    LET f == FieldsOf(TrimText(recs[i]), 44)
                    IN  [j \in 1 .. Len(f) |-> TrimText(f[j])]])

\* C16: on a text whose fields are all non-empty, the loop over the records
\* and, for each record, over its fields is handed every field of every
\* record once, in the order of the text.
C16_CsvFieldsInOrder ==
    (/\ pc \in {"record?", "fields", "field?", "field", "++field", "++record", "done"}
     /\ \A i \in 1 .. Len(CsvFieldsOf(v)) : CsvFieldsOf(v)[i] # <<>>) =>
        LET ref == CsvFieldsOf(v)
        IN  /\ Len(out) <= Len(ref)
            /\ \A i \in 1 .. Len(out) : i <= Len(ref) => Text(out[i]) = ref[i]
            /\ pc = "done" =>
                  Join([i \in 1 .. Len(out) |-> Text(out[i])], 44) = Join(ref, 44)

\* C16, second part: the calls on the inner splitable leave the outer
\* splitable, its record and its cursor, as they were.
C16_InnerLeavesOuter ==
    [][(pc \in {"fields", "field?", "field", "++field"}) => (ss' = ss)]_vars

\* the view w begins with the n characters of the literal s and these are
\* followed by the end of w or by white space
LiteralAt(w, s, n) ==
    /\ w.len >= n
    /\ \A i \in 1 .. n : at(w.buf + i - 1) = s[i]
    /\ (w.len = n \/ at(w.buf + n) \in WhiteSpace)

\* C17: a literal match (null, true, false) succeeds exactly when the view
\* begins with all characters of the literal and these are followed by the
\* end of the input or by white space; on success the view is left just
\* behind the literal, on failure it is left as it was.
C17_LiteralMatch ==
    call.op \in {"is_null", "is_true", "is_false",
                 "parse_null", "parse_true", "parse_false"} =>
        /\ call.b <=> LiteralAt(call.pre, call.s, call.n)
        /\ call.b => v = View(call.pre.buf + call.n, call.pre.len - call.n)
        /\ ~call.b => v = call.pre

RECURSIVE DigitRun(_, _)
\* the number of digits of the text t from index i on
DigitRun(t, i) ==
    IF i <= Len(t) /\ t[i] \in 48 .. 57 THEN 1 + DigitRun(t, i + 1) ELSE 0

RECURSIVE DigitsValue(_, _, _)
\* the value of the k digits of t from index i on
DigitsValue(t, i, k) ==
    IF k = 0 THEN 0
    ELSE 10 * DigitsValue(t, i, k - 1) + (t[i + k - 1] - 48)

\* the text t read by the grammar
\*   -?(0|[1-9][0-9]*)(\.[0-9]+)?([eE][+-]?[0-9]+)?
\* valid says that the whole of t matches; the other fields are its sign,
\* integer part, fraction digits and their number, and signed exponent
Grammar(t) ==
    LET ch(i) == IF i <= Len(t) THEN t[i] ELSE 0
        neg == ch(1) = 45
        i1 == IF neg THEN 2 ELSE 1
        ni == DigitRun(t, i1)
        i2 == i1 + ni
        hasF == ch(i2) = 46
        nf == IF hasF THEN DigitRun(t, i2 + 1) ELSE 0
        i3 == IF hasF THEN i2 + 1 + nf ELSE i2
        hasE == ch(i3) \in {101, 69}
        i4 == IF hasE THEN (IF ch(i3 + 1) \in {43, 45} THEN i3 + 2 ELSE i3 + 1) ELSE i3
        ne == IF hasE THEN DigitRun(t, i4) ELSE 0
    IN  [valid |-> /\ ni >= 1 /\ (ch(i1) # 48 \/ ni = 1)
                   /\ (hasF => nf >= 1)
                   /\ (hasE => ne >= 1)
                   /\ i4 + ne = Len(t) + 1,
         sgn |-> IF neg THEN -1 ELSE 1,
         ip |-> DigitsValue(t, i1, ni),
         fd |-> DigitsValue(t, i2 + 1, nf),
         fn |-> nf,
         exp |-> (IF hasE /\ ch(i3 + 1) = 45 THEN -1 ELSE 1) * DigitsValue(t, i4, ne)]

\* C18: on a text that matches the number grammar, parse_number returns
\* sign * (integer part + fraction) scaled by 10^exponent: the
\* multiplications by 10 less the divisions by 10 are the signed exponent
\* of the text, 0 when it has none.
C18_NumberValue ==
    (call.op = "parse_number" /\ Grammar(Text(call.pre)).valid) =>
        LET g == Grammar(Text(call.pre))
        IN  /\ ~res.nan
            /\ res.sgn = g.sgn /\ res.ip = g.ip
            /\ res.fd = g.fd /\ res.fn = g.fn
            /\ res.muls - res.divs = g.exp

\* the offset in w of the first white space, or the length of w
FirstSpace(w) ==
    CHOOSE k \in 0 .. w.len :
        /\ \A i \in 0 .. k - 1 : at(w.buf + i) \notin WhiteSpace
        /\ (k = w.len \/ at(w.buf + k) \in WhiteSpace)

\* C19: on leading white space, a number of the grammar and a white space
\* character, parse_number leaves the view no error and at that white space
\* character, also when the integer part of the number is the digit 0.
C19_ViewAtWhiteSpace ==
    call.op = "parse_number" =>
        LET a == LeadingRun(call.pre)
            w == View(call.pre.buf + a, call.pre.len - a)
            k == FirstSpace(w)
        IN  (k < w.len /\ Grammar(Text(View(w.buf, k))).valid) =>
                v = View(w.buf + k, w.len - k)

\* C20: on a number of the grammar directly followed by a character that is
\* no white space and cannot continue a number, parse_number returns NaN and
\* leaves the view as it was before the call.
C20_GarbageLeavesView ==
    (/\ call.op = "parse_number"
     /\ \E k \in 1 .. call.pre.len - 1 :
           /\ Grammar(Text(View(call.pre.buf, k))).valid
           /\ at(call.pre.buf + k) \notin
                 WhiteSpace \cup (48 .. 57) \cup {43, 45, 46, 69, 101}) =>
        /\ res.nan
        /\ v = call.pre

\* C21: parse_number returns a number (no NaN) and leaves a view that is no
\* error only when the text it consumed, behind the leading white space,
\* matches the number grammar.
C21_SuccessOnlyOnGrammar ==
    (call.op = "parse_number" /\ ~res.nan /\ ~is_error(v)) =>
        LET a == LeadingRun(call.pre)
        IN  Grammar(Text(View(call.pre.buf + a, v.buf - call.pre.buf - a))).valid

\* C22: when the view holds a double quote that does not directly follow an
\* escaping backslash, parse_string returns the characters in front of the
\* first such quote as they stand and leaves the view at that quote; a
\* backslash escapes the one character behind it.
C22_StringToFirstBareQuote ==
    call.op = "parse_string" =>
        \A q \in 0 .. call.pre.len - 1 :
            (/\ at(call.pre.buf + q) = 34 /\ ~Escaped(call.pre, q, 92)
             /\ \A p \in 0 .. q - 1 :
                   ~(at(call.pre.buf + p) = 34 /\ ~Escaped(call.pre, p, 92)))
            => /\ res = Text(View(call.pre.buf, q))
               /\ v = View(call.pre.buf + q, call.pre.len - q)

\* C25: eat(c) on an empty view is a mismatch: the view is an error
\* afterwards.
C25_EatOnEmptyIsError ==
    (call.op = "eat" /\ call.pre.len = 0) => is_error(v)

\* C26: eat(s) with a literal that ends at its terminator leaves a view that
\* is no error only when every character of s was matched: a view whose
\* content is a proper prefix of s ends as an error.
C26_EatStrNeedsWholeLiteral ==
    (/\ call.op = "eat_str" /\ call.n = 0
     /\ call.pre.len >= 0
     /\ ~is_error(v)) =>
        /\ call.pre.len >= length(call.s)
        /\ \A i \in 1 .. length(call.s) : at(call.pre.buf + i - 1) = call.s[i]

\* C27: equal(s, n) with n > 0 on a view of at least n characters compares
\* the first n characters only: it is true exactly when the first n
\* characters of the view are the first n characters of s.
C27_EqualFirstN ==
    (call.op = "equal" /\ call.n > 0 /\ call.pre.len >= call.n) =>
        (call.b <=> \A i \in 1 .. call.n : at(call.pre.buf + i - 1) = call.s[i])

\* the text of an array of n numbers: "[]", "[1]", "[1,1]", ...
RECURSIVE ArrayText(_)
ArrayText(n) ==
    IF n = 0 THEN <<91>>
    ELSE IF n = 1 THEN <<91, 49>>
    ELSE ArrayText(n - 1) \o <<44, 49>>

\* C23: parse_value on the text of an array of n elements, "[]" included,
\* returns an array of n elements and leaves the view just past the ']',
\* not in error.
C23_ArrayElements ==
    call.op = "parse_value" =>
        \A n \in 0 .. MaxJsonLen :
            Text(call.pre) = ArrayText(n) \o <<93>> =>
                /\ res.type = "array"
                /\ Len(res.arr) = n
                /\ v = View(call.pre.buf + call.pre.len, 0)

\* C24: parse_value on an object text of k members returns an object with an
\* entry for each of the k members, members whose keys repeat included.
C24_ObjectEntries ==
    call.op = "parse_value" =>
        \A ms \in MemberLists :
            (ms # <<>> /\ Text(call.pre) = ObjectText(ms, TRUE)) =>
                /\ res.type = "object"
                /\ Cardinality(res.obj) = Len(ms)
                /\ \A i \in 1 .. Len(ms) : \E e \in res.obj : e.key = <<ms[i][2]>>

\* C30: parse_value on an array text that ends before its closing ']' leaves
\* the view in the error state.
C30_UnclosedIsError ==
    call.op = "parse_value" =>
        \A n \in 0 .. MaxJsonLen :
            Text(call.pre) = ArrayText(n) => is_error(v)

\* C29: take, drop, ++, ws_trim and trim_ws on a view that is not an error
\* leave a view that is not an error and lies in the window it had before
\* the call: across any sequence of them the view stays in the window it
\* was constructed on and never grows.
C29_StaysInWindow ==
    [][(/\ call'.op \in {"take", "drop", "operator++", "ws_trim", "trim_ws"}
        /\ v.len >= 0)
       => (/\ v'.len >= 0
           /\ v.buf <= v'.buf
           /\ v'.buf + v'.len <= v.buf + v.len)]_vars

\* a view moved by ws_trim and then shortened by trim_ws
C29_Witness ==
    /\ call.op = "trim_ws" /\ call.steps > 0
    /\ v.buf > 0 /\ v.len > 0

\* the text t is digits, a separator at i, digits, a separator at j, digits
YmdForm(t, i, j) ==
    /\ 1 < i /\ i + 1 < j /\ j < Len(t)
    /\ \A k \in 1 .. Len(t) : (t[k] \in 48 .. 57) <=> (k # i /\ k # j)

\* C28: to_ymd on year, separator, month, separator, day: when the first
\* separator is '-' or '/' and the second is the same character, the tuple
\* is (year, month, day) and the view is left empty at the end of the text,
\* not an error; otherwise the view is left an error view (len < 0) whose
\* buf is a message.
C28_SameSeparator ==
    call.op = "to_ymd" =>
        LET t == Text(call.pre)
        IN  \A i, j \in 1 .. Len(t) :
                YmdForm(t, i, j) =>
                    IF t[i] \in {45, 47} /\ t[j] = t[i]
                    THEN /\ res = <<DigitsValue(t, 1, i - 1),
                                    DigitsValue(t, i + 1, j - i - 1),
                                    DigitsValue(t, j + 1, Len(t) - j)>>
                         /\ v.len = 0
                         /\ v.buf = call.pre.buf + call.pre.len
                    ELSE /\ v.len < 0
                         /\ v.buf \in {"to_ymd: invalid year-month separator",
                                       "to_ymd: invalid month-day separator"}

\* "1/2-1": the separators differ and the view is left an error view
C28_Witness ==
    /\ call.op = "to_ymd"
    /\ Len(mem) = 6 /\ mem[2] = 47 /\ mem[4] = 45
    /\ YmdForm(Text(call.pre), 2, 4)
    /\ v.len < 0
====
